---- MODULE Spec2Model ----
(***************************************************************************)
(* Model of backend/scripts/prepare_drug_dataset.py: the three source      *)
(* adapters, harmonize_and_engineer (split at its own comment blocks into  *)
(* consecutive steps), and the column normalizer to_snake_case.            *)
(*                                                                         *)
(* Numbers are fixed-point integers.  Score-like columns (xlogp,           *)
(* binding_score, toxicity, stability, solubility and the engineered       *)
(* indices) are held in units of 10^-(Decimals+1), one guard digit below   *)
(* the precision the final table is rounded to.  Descriptor columns        *)
(* (molecular_weight, polar_area, complexity, the counts,                  *)
(* measured_log_solubility) are held in hundredths.  A missing cell        *)
(* (numpy NaN) is the value NaN; a missing text cell is NoStr.             *)
(***************************************************************************)
EXTENDS Integers, Sequences, FiniteSets, TLC

\* ---------------------------------------------------------------- bounds
\* Largest number of raw rows over the three input tables together.
MaxRows == 3
\* Longest column label given to to_snake_case.
MaxLen == 3

\* ------------------------------------------------------------ fixed point
\* round(6) of the final table.
Decimals == 6
Unit == 10 ^ (Decimals + 1)
Cent == 10 ^ 2
\* np.nan: a value outside every column's range.
NaN == 0 - 2000000000
NoStr == "<NaN>"
\* A cell of a numeric column that holds text which is not a number.
NotNumeric == NaN - 1

IsNa(x) == x = NaN

RECURSIVE LongDiv(_, _, _, _)
LongDiv(q, r, d, k) ==
    IF k = 0 THEN q
    ELSE LongDiv(q * 10 + ((r * 10) \div d), (r * 10) % d, d, k - 1)

\* n / d as a score-like fixed-point number (n, d in the same unit, d > 0).
Ratio(n, d) ==
    IF n >= 0 THEN LongDiv(n \div d, n % d, d, Decimals + 1)
    ELSE 0 - LongDiv((0 - n) \div d, (0 - n) % d, d, Decimals + 1)

Min2(a, b) == IF a <= b THEN a ELSE b
Max2(a, b) == IF a >= b THEN a ELSE b

\* Series.clip / np.clip: NaN stays NaN.
Clip(x, lo, hi) == IF IsNa(x) THEN NaN ELSE Max2(lo, Min2(hi, x))

\* ------------------------------------------------------------- sequences
RECURSIVE SeqMap(_, _)
SeqMap(Op(_), s) ==
    IF s = << >> THEN << >> ELSE << Op(Head(s)) >> \o SeqMap(Op, Tail(s))

Range(s) == { s[i] : i \in DOMAIN s }

SeqsUpTo(S, n) == UNION { [1..k -> S] : k \in 0..n }

RECURSIVE InsertSorted(_, _)
InsertSorted(x, s) ==
    IF s = << >> THEN << x >>
    ELSE IF x <= Head(s) THEN << x >> \o s
    ELSE << Head(s) >> \o InsertSorted(x, Tail(s))

RECURSIVE SortAsc(_)
SortAsc(s) == IF s = << >> THEN << >> ELSE InsertSorted(Head(s), SortAsc(Tail(s)))

\* The non-missing values of a column, ascending (dropna / skipna=True).
Present(rows, col) ==
    SortAsc(SeqMap(LAMBDA r : r[col], SelectSeq(rows, LAMBDA r : ~IsNa(r[col]))))

\* ---------------------------------------------------------------- columns
TextCols == { "candidate_id", "source_dataset", "name", "smiles", "molecule_id" }
DescriptorCols ==
    { "molecular_weight", "polar_area", "complexity", "heavy_atom_count",
      "h_bond_donor_count", "h_bond_acceptor_count", "rotatable_bond_count",
      "measured_log_solubility" }
ScoreCols == { "xlogp", "binding_score", "toxicity", "stability", "solubility" }
EngineeredCols ==
    { "efficacy_index", "safety_index", "molecular_complexity", "drug_score" }
OtherCols == { "compound_cid", "priority_rank" }
\* The benchmark file's own labels, renamed by prepare_delaney.
DelaneyNativeText == { "compound_id" }
DelaneyNativeNumeric ==
    { "number_of_h_bond_donors", "number_of_rotatable_bonds", "polar_surface_area",
      "measured_log_solubility_in_mols_per_litre" }
DataCols ==
    TextCols \cup DescriptorCols \cup ScoreCols \cup EngineeredCols \cup OtherCols
        \cup DelaneyNativeText \cup DelaneyNativeNumeric

\* A row of a DataFrame: its index label and one cell per column name; the
\* cells of a column the frame does not have are missing.
Blank == [ c \in DataCols \cup { "index" } |->
             IF c \in TextCols \cup DelaneyNativeText THEN NoStr
             ELSE IF c = "index" THEN 0 ELSE NaN ]

Data(r) == [ c \in DataCols |-> r[c] ]

EmptyTable == [ cols |-> {}, rows |-> << >> ]

\* pd.DataFrame index labels 0..n-1 given by read_csv.
RangeIndexed(rows) == [ i \in DOMAIN rows |-> [ rows[i] EXCEPT !["index"] = i - 1 ] ]

\* ------------------------------------------------------------ raw inputs
\* Column labels are written in the form normalize_columns leaves them in.
PubchemRawCols ==
    { "compound_cid", "name", "smiles", "molecular_weight", "polar_area",
      "complexity", "xlogp", "heavy_atom_count", "h_bond_donor_count",
      "h_bond_acceptor_count", "rotatable_bond_count" }
DelaneyRawCols ==
    { "compound_id", "smiles", "molecular_weight", "number_of_h_bond_donors",
      "number_of_rotatable_bonds", "polar_surface_area",
      "measured_log_solubility_in_mols_per_litre" }
QuantumScoreCols == { "binding_score", "toxicity", "stability", "solubility" }
QuantumRawCols == QuantumScoreCols \cup { "molecule_id" }

Row(overrides) == overrides @@ Blank

\* Rows a PubChem export can hold: two records of one compound that differ in
\* the name, a record with no SMILES, zero and non-zero xlogp.
PubchemRows ==
    { Row([ compound_cid |-> 1, name |-> "a", smiles |-> "CCO",
            molecular_weight |-> 300 * Cent, polar_area |-> 40 * Cent,
            complexity |-> 100 * Cent, xlogp |-> 0,
            heavy_atom_count |-> 10 * Cent, h_bond_donor_count |-> 2 * Cent,
            h_bond_acceptor_count |-> 4 * Cent, rotatable_bond_count |-> 3 * Cent ]),
      Row([ compound_cid |-> 1, name |-> "b", smiles |-> "c1ccccc1",
            molecular_weight |-> 600 * Cent, polar_area |-> 150 * Cent,
            complexity |-> 200 * Cent, xlogp |-> 3 * Unit,
            heavy_atom_count |-> 20 * Cent, h_bond_donor_count |-> 6 * Cent,
            h_bond_acceptor_count |-> 11 * Cent, rotatable_bond_count |-> 12 * Cent ]),
      Row([ compound_cid |-> 2, name |-> " ", smiles |-> NoStr,
            molecular_weight |-> NaN, polar_area |-> 90 * Cent,
            complexity |-> NaN, xlogp |-> 0,
            heavy_atom_count |-> 15 * Cent, h_bond_donor_count |-> NaN,
            h_bond_acceptor_count |-> 8 * Cent, rotatable_bond_count |-> 3 * Cent ]) }

\* Rows of the solubility benchmark: two measured values and a missing one, a
\* missing molecular weight, a missing SMILES.
DelaneyRows ==
    { Row([ compound_id |-> "d1", smiles |-> "CCO", molecular_weight |-> 200 * Cent,
            number_of_h_bond_donors |-> 1 * Cent,
            number_of_rotatable_bonds |-> 2 * Cent,
            polar_surface_area |-> 30 * Cent,
            measured_log_solubility_in_mols_per_litre |-> (0 - 1) * Cent ]),
      Row([ compound_id |-> "d2", smiles |-> "CCCC", molecular_weight |-> NaN,
            number_of_h_bond_donors |-> 0,
            number_of_rotatable_bonds |-> 11 * Cent,
            polar_surface_area |-> 0,
            measured_log_solubility_in_mols_per_litre |-> (0 - 3) * Cent ]),
      Row([ compound_id |-> "d3", smiles |-> NoStr, molecular_weight |-> 200 * Cent,
            number_of_h_bond_donors |-> 1 * Cent,
            number_of_rotatable_bonds |-> 2 * Cent,
            polar_surface_area |-> 30 * Cent,
            measured_log_solubility_in_mols_per_litre |-> NaN ]) }

\* Rows of the simulated-candidate table: two candidates with the same scores,
\* and one with an out-of-range and a missing score.
QuantumRows ==
    { Row([ molecule_id |-> "m1", binding_score |-> (9 * Unit) \div 10,
            toxicity |-> Unit \div 10, stability |-> Unit \div 2,
            solubility |-> (6 * Unit) \div 10 ]),
      Row([ molecule_id |-> "m2", binding_score |-> (9 * Unit) \div 10,
            toxicity |-> Unit \div 10, stability |-> Unit \div 2,
            solubility |-> (6 * Unit) \div 10 ]),
      Row([ molecule_id |-> "m3", binding_score |-> (3 * Unit) \div 2,
            toxicity |-> (4 * Unit) \div 10, stability |-> 0 - Unit,
            solubility |-> NaN ]) }

\* A file read by pd.read_csv: the rows in file order under the file's header.
ReadCsv(cols, rows) ==
    [ cols |-> cols,
      rows |-> RangeIndexed([ i \in DOMAIN rows |->
                 [ c \in DOMAIN rows[i] |->
                     IF c \in cols \/ c = "index" THEN rows[i][c] ELSE Blank[c] ] ]) ]

\* ------------------------------------------------------ shared primitives
\* DataFrame.drop_duplicates(): the first of equal rows is kept with its label.
RECURSIVE DropDuplicatesFrom(_, _)
DropDuplicatesFrom(seen, rows) ==
    IF rows = << >> THEN << >>
    ELSE IF Data(Head(rows)) \in seen THEN DropDuplicatesFrom(seen, Tail(rows))
    ELSE << Head(rows) >> \o DropDuplicatesFrom(seen \cup { Data(Head(rows)) }, Tail(rows))

drop_duplicates(rows) == DropDuplicatesFrom({}, rows)

\* a * pct / 100 rounded down, without leaving the integer range.
Percent(a, pct) == (a \div 100) * pct + ((a % 100) * pct) \div 100

\* Series.quantile(pct/100), linear interpolation over the non-missing values.
Quantile(vals, pct) ==
    LET n == Len(vals)
        pos == pct * (n - 1)
        lo == pos \div 100
        hi == Min2(lo + 1, n - 1)
    IN vals[lo + 1] + Percent(vals[hi + 1] - vals[lo + 1], pos % 100)

\* clip_numeric_outliers for one column.
WinsorizeColumn(rows, col) ==
    LET vals == Present(rows, col) IN
    IF vals = << >> THEN rows
    ELSE LET q1 == Quantile(vals, 1)
             q99 == Quantile(vals, 99)
         IN IF q1 = q99 THEN rows
            ELSE [ i \in DOMAIN rows |-> [ rows[i] EXCEPT ![col] = Clip(@, q1, q99) ] ]

RECURSIVE WinsorizeAll(_, _)
WinsorizeAll(rows, cols) ==
    IF cols = {} THEN rows
    ELSE LET c == CHOOSE x \in cols : TRUE
         IN WinsorizeAll(WinsorizeColumn(rows, c), cols \ { c })

\* select_dtypes(include=[np.number]) over the columns of the model.
NumericCols ==
    DescriptorCols \cup ScoreCols \cup DelaneyNativeNumeric \cup { "compound_cid" }

clip_numeric_outliers(table, ignore_cols) ==
    WinsorizeAll(table.rows, (table.cols \cap NumericCols) \ ignore_cols)

\* str.strip() on the cells the inputs hold.
Strip(s) == IF s = " " THEN "" ELSE s

\* astype(str).str.strip().replace({"nan": NaN, "": NaN}) on a text cell.
CleanText(s) ==
    LET t == Strip(IF s = NoStr THEN "nan" ELSE s)
    IN IF t \in { "nan", "" } THEN NoStr ELSE t

\* astype(str) on a text cell: a missing cell becomes the text "nan".
AsStr(s) == IF s = NoStr THEN "nan" ELSE s

FillText(s, v) == IF s = NoStr THEN v ELSE s

\* Keep the cells of the named columns, blank the others.
Project(r, cols) ==
    [ c \in DOMAIN r |-> IF c \in cols \/ c = "index" THEN r[c] ELSE Blank[c] ]

\* A default pd.Series of n cells (labels 0..n-1) assigned to a frame column:
\* cells are aligned on the label, a label the series lacks gets a missing cell.
Aligned(r, n, v) == IF r["index"] < n THEN v ELSE NoStr

\* ---------------------------------------------------------------- adapters
PubchemKeep ==
    { "compound_cid", "name", "smiles", "molecular_weight", "polar_area",
      "complexity", "xlogp", "heavy_atom_count", "h_bond_donor_count",
      "h_bond_acceptor_count", "rotatable_bond_count" }

\* out["compound_cid"] raises KeyError when the frame has no such column.
PubchemRaises(df) == "compound_cid" \notin (PubchemKeep \cap df.cols)

prepare_pubchem(df) ==
    LET deduped == drop_duplicates(df.rows)
        cleaned == [ i \in DOMAIN deduped |->
                       [ c \in DOMAIN deduped[i] |->
                           IF c \in df.cols \cap TextCols
                           THEN CleanText(deduped[i][c]) ELSE deduped[i][c] ] ]
        clipped == clip_numeric_outliers([ cols |-> df.cols, rows |-> cleaned ],
                                         { "compound_cid" })
        keep_cols == PubchemKeep \cap df.cols
        Out(r) ==
            [ Project(r, keep_cols) EXCEPT
                !["source_dataset"] = "pubchem_antibiotic",
                !["candidate_id"] = "pubchem_" \o ToString(r["compound_cid"]),
                !["name"] = IF "name" \in keep_cols THEN FillText(@, "unknown") ELSE @,
                !["smiles"] = IF "smiles" \in keep_cols THEN FillText(@, "unknown") ELSE @ ]
    IN [ cols |-> keep_cols \cup { "source_dataset", "candidate_id" },
         rows |-> [ i \in DOMAIN clipped |-> Out(clipped[i]) ] ]

\* col_map of prepare_delaney (the pairs whose names differ).
DelaneyColMap ==
    [ compound_id |-> "name",
      number_of_h_bond_donors |-> "h_bond_donor_count",
      number_of_rotatable_bonds |-> "rotatable_bond_count",
      polar_surface_area |-> "polar_area",
      measured_log_solubility_in_mols_per_litre |-> "measured_log_solubility" ]

RenamedCols(cols) ==
    { IF c \in DOMAIN DelaneyColMap THEN DelaneyColMap[c] ELSE c : c \in cols }

RenameRow(r, cols) ==
    [ c \in DOMAIN r |->
        IF c \in DOMAIN DelaneyColMap /\ c \in cols THEN Blank[c]
        ELSE IF \E src \in DOMAIN DelaneyColMap \cap cols : DelaneyColMap[src] = c
             THEN r[CHOOSE src \in DOMAIN DelaneyColMap \cap cols : DelaneyColMap[src] = c]
             ELSE r[c] ]

DelaneyKeep ==
    { "name", "smiles", "molecular_weight", "h_bond_donor_count",
      "rotatable_bond_count", "polar_area", "measured_log_solubility" }

prepare_delaney(df) ==
    LET deduped == drop_duplicates(df.rows)
        cols == RenamedCols(df.cols)
        renamed == [ i \in DOMAIN deduped |-> RenameRow(deduped[i], df.cols) ]
        clipped == clip_numeric_outliers([ cols |-> cols, rows |-> renamed ], {})
        keep_cols == DelaneyKeep \cap cols
        n == Len(clipped)
        Out(r) ==
            [ Project(r, keep_cols) EXCEPT
                !["source_dataset"] = "delaney_solubility",
                !["candidate_id"] = "delaney_" \o ToString(r["index"]),
                !["name"] = IF "name" \in keep_cols
                            THEN AsStr(FillText(@, "unknown"))
                            ELSE Aligned(r, n, "unknown"),
                !["smiles"] = IF "smiles" \in keep_cols
                              THEN AsStr(FillText(@, "unknown"))
                              ELSE Aligned(r, n, "unknown") ]
    IN [ cols |-> keep_cols \cup { "source_dataset", "candidate_id", "name", "smiles" },
         rows |-> [ i \in DOMAIN clipped |-> Out(clipped[i]) ] ]

prepare_quantum(df) ==
    LET deduped == drop_duplicates(df.rows)
        n == Len(deduped)
        Out(r) ==
            [ c \in DOMAIN r |->
                CASE c \in QuantumScoreCols \cap df.cols -> Clip(r[c], 0, Unit)
                  [] c = "source_dataset" -> "quantum_candidates"
                  [] c = "candidate_id" ->
                        IF "molecule_id" \in df.cols THEN AsStr(r["molecule_id"])
                        ELSE Aligned(r, n, ToString(r["index"]))
                  [] c = "name" ->
                        IF "molecule_id" \in df.cols THEN AsStr(r["molecule_id"])
                        ELSE Aligned(r, n, "unknown")
                  [] c = "smiles" -> "unknown"
                  [] OTHER -> r[c] ]
    IN [ cols |-> df.cols \cup { "source_dataset", "candidate_id", "name", "smiles" },
         rows |-> [ i \in DOMAIN deduped |-> Out(deduped[i]) ] ]

\* ------------------------------------------------- harmonize_and_engineer
\* pd.concat(dfs, ignore_index=True, sort=False): rows in list order, labels
\* renumbered, the union of the columns.
RECURSIVE ConcatRows(_)
ConcatRows(dfs) ==
    IF dfs = << >> THEN << >> ELSE Head(dfs).rows \o ConcatRows(Tail(dfs))

concat(dfs) ==
    [ cols |-> UNION { dfs[i].cols : i \in DOMAIN dfs },
      rows |-> RangeIndexed(ConcatRows(dfs)) ]

\* The sentinels of compute_logp_from_smiles (smiles.strip().lower()).
SmilesSentinels == { "", "unknown", "nan" }

\* RDKit's Crippen MolLogP for the structures the inputs hold; a string
\* MolFromSmiles cannot parse gives a missing value.
MolLogP(smiles) ==
    CASE smiles = "CCO" -> 0 - 14000
      [] smiles = "c1ccccc1" -> 16866000
      [] smiles = "CCCC" -> 18064000
      [] OTHER -> NaN

compute_logp_from_smiles(smiles) ==
    IF smiles = NoStr \/ smiles \in SmilesSentinels THEN NaN ELSE MolLogP(smiles)

\* float(row.get(col) or 0.0): None (no such column) and 0 give 0.0; a
\* missing cell is truthy and stays missing.
GetOrZero(r, cols, col) == IF col \notin cols THEN 0 ELSE r[col]

heuristic_logp(r, cols) ==
    LET mw == GetOrZero(r, cols, "molecular_weight")
        pa == GetOrZero(r, cols, "polar_area")
    IN IF IsNa(mw) \/ IsNa(pa) THEN NaN
       ELSE Clip(2 * Unit + Ratio(mw - 350 * Cent, 250 * Cent)
                          - Ratio(pa - 50 * Cent, 200 * Cent),
                 0 - 2 * Unit, 6 * Unit)

\* missing_logp: xlogp missing or exactly zero.
missing_logp(r) == IsNa(r["xlogp"]) \/ r["xlogp"] = 0

\* The value the estimation step writes into a row it selects.
EstimateValue(r, cols, rdkit) ==
    IF rdkit THEN compute_logp_from_smiles(r["smiles"]) ELSE heuristic_logp(r, cols)

\* Lines 260-301.
estimate_xlogp(table, rdkit) ==
    IF "smiles" \notin table.cols THEN table
    ELSE [ cols |-> table.cols \cup { "xlogp" },
           rows |-> [ i \in DOMAIN table.rows |->
                      IF missing_logp(table.rows[i])
                      THEN [ table.rows[i] EXCEPT
                               !["xlogp"] = EstimateValue(table.rows[i], table.cols, rdkit) ]
                      ELSE table.rows[i] ] ]

\* Lines 306-310: the critical text fields.
CriticalText == { "candidate_id", "source_dataset", "name", "smiles" }

coerce_text(table) ==
    [ cols |-> table.cols \cup CriticalText,
      rows |-> [ i \in DOMAIN table.rows |->
                 [ c \in DOMAIN table.rows[i] |->
                     IF c \in CriticalText
                     THEN IF c \in table.cols THEN AsStr(table.rows[i][c]) ELSE "unknown"
                     ELSE table.rows[i][c] ] ] ]

\* Series.median(skipna=True); missing when no value is present.
Median(rows, col) ==
    LET vals == Present(rows, col)
        n == Len(vals)
    IN IF n = 0 THEN NaN
       ELSE IF n % 2 = 1 THEN vals[(n + 1) \div 2]
       ELSE (vals[n \div 2] + vals[n \div 2 + 1]) \div 2

critical_numeric ==
    { "molecular_weight", "polar_area", "h_bond_donor_count", "h_bond_acceptor_count",
      "rotatable_bond_count", "binding_score", "toxicity", "stability", "solubility",
      "complexity" }

FillNa(x, v) == IF IsNa(x) THEN v ELSE x

\* The value the imputer fills a column with.
median_val(rows, col) == FillNa(Median(rows, col), 0)

\* Lines 312-331.
impute(table) ==
    [ cols |-> table.cols \cup critical_numeric,
      rows |-> [ i \in DOMAIN table.rows |->
                 [ c \in DOMAIN table.rows[i] |->
                     IF c \in critical_numeric
                     THEN FillNa(table.rows[i][c], median_val(table.rows, c))
                     ELSE table.rows[i][c] ] ] ]

\* minmax: one value per row, in row order.
minmax(rows, col) ==
    LET vals == Present(rows, col)
        mn == vals[1]
        mx == vals[Len(vals)]
    IN IF vals = << >> \/ mn = mx THEN [ i \in DOMAIN rows |-> 0 ]
       ELSE [ i \in DOMAIN rows |->
                IF IsNa(rows[i][col]) THEN NaN ELSE Ratio(rows[i][col] - mn, mx - mn) ]

\* Lines 333-340.
override_solubility(table) ==
    IF "measured_log_solubility" \notin table.cols THEN table
    ELSE LET measured_scaled == minmax(table.rows, "measured_log_solubility")
         IN [ table EXCEPT !.rows =
                [ i \in DOMAIN table.rows |->
                    IF table.rows[i]["source_dataset"] = "delaney_solubility"
                    THEN [ table.rows[i] EXCEPT !["solubility"] = measured_scaled[i] ]
                    ELSE table.rows[i] ] ]

\* pd.to_numeric(..., errors="coerce") on a cell: text that is no number
\* becomes NaN.
to_numeric(x) == IF x = NotNumeric THEN NaN ELSE x

\* A rule whose comparison is evaluated on the stored value of a missing cell.
RuleUnguarded(ok, x) == IF ok THEN 1 ELSE 0

\* One rule of compute_lipinski_ratio: a comparison with a missing value is False.
Rule(ok, x) == IF ~IsNa(x) /\ ok THEN 1 ELSE 0

LipinskiChecks(r) ==
    LET mw == to_numeric(r["molecular_weight"])
        xlogp == to_numeric(r["xlogp"])
        hbd == to_numeric(r["h_bond_donor_count"])
        hba == to_numeric(r["h_bond_acceptor_count"])
        rot == to_numeric(r["rotatable_bond_count"])
        pa == to_numeric(r["polar_area"])
    IN [ molecular_weight |-> Rule(mw <= 500 * Cent, mw),
         xlogp |-> Rule(xlogp >= 0 - Unit \div 2 /\ xlogp <= 5 * Unit, xlogp),
         h_bond_donor_count |-> Rule(hbd <= 5 * Cent, hbd),
         h_bond_acceptor_count |-> Rule(hba <= 10 * Cent, hba),
         rotatable_bond_count |-> Rule(rot <= 10 * Cent, rot),
         polar_area |-> Rule(pa <= 140 * Cent, pa) ]

RECURSIVE SumOver(_, _)
SumOver(f, S) ==
    IF S = {} THEN 0
    ELSE LET x == CHOOSE y \in S : TRUE IN f[x] + SumOver(f, S \ { x })

compute_lipinski_ratio(r, cols) ==
    LET checks == DOMAIN LipinskiChecks(r) \cap cols
    IN IF checks = {} THEN Unit \div 2
       ELSE Ratio(SumOver(LipinskiChecks(r), checks), Cardinality(checks))

\* (w1*a + w2*b + w3*c) / den on series cells: a missing term makes the sum missing.
Weighted(w1, a, w2, b, w3, c, den) ==
    IF IsNa(a) \/ IsNa(b) \/ IsNa(c) THEN NaN
    ELSE (w1 * a + w2 * b + w3 * c) \div den

Abs(x) == IF x < 0 THEN 0 - x ELSE x

\* complexity_balance of line 358.
complexity_balance(mc) ==
    IF IsNa(mc) THEN NaN ELSE Clip(Unit - 2 * Abs(mc - Unit \div 2), 0, Unit)

\* drug_score of lines 359-363.
drug_score(eff, saf, mc) ==
    Clip(Weighted(45, eff, 35, saf, 20, complexity_balance(mc), 100), 0, Unit)

\* heavy_atom_norm of line 350: the column's minmax, or that of a series of 0.
heavy_atom_norm(table) ==
    IF "heavy_atom_count" \in table.cols THEN minmax(table.rows, "heavy_atom_count")
    ELSE [ i \in DOMAIN table.rows |-> 0 ]

\* Lines 342-363.
engineer(table) ==
    LET rows == table.rows
        binding_norm == minmax(rows, "binding_score")
        stability_norm == minmax(rows, "stability")
        solubility_norm == minmax(rows, "solubility")
        toxicity_norm == minmax(rows, "toxicity")
        complexity_norm == minmax(rows, "complexity")
        heavy_norm == heavy_atom_norm(table)
        rotatable_norm == minmax(rows, "rotatable_bond_count")
        Eff(i) == Clip(Weighted(6, binding_norm[i], 2, stability_norm[i],
                                2, solubility_norm[i], 10), 0, Unit)
        Saf(i) == Clip(Weighted(7, IF IsNa(toxicity_norm[i]) THEN NaN
                                   ELSE Unit - toxicity_norm[i],
                                3, compute_lipinski_ratio(rows[i], table.cols),
                                0, 0, 10), 0, Unit)
        Mc(i) == Clip(Weighted(5, complexity_norm[i], 3, heavy_norm[i],
                               2, rotatable_norm[i], 10), 0, Unit)
    IN [ cols |-> table.cols \cup EngineeredCols,
         rows |-> [ i \in DOMAIN rows |->
                    [ rows[i] EXCEPT
                        !["efficacy_index"] = Eff(i),
                        !["safety_index"] = Saf(i),
                        !["molecular_complexity"] = Mc(i),
                        !["drug_score"] = drug_score(Eff(i), Saf(i), Mc(i)) ] ] ]

\* sort_values("drug_score") with ascending=False left out.
MayPrecedeAscending(a, ia, b, ib) ==
    IF IsNa(a) THEN IsNa(b) /\ ia < ib
    ELSE IsNa(b) \/ a <= b

\* sort_values("drug_score", ascending=False): whether a row with score a may
\* stand before a row with score b, where ia < ib or ia > ib are their labels
\* before the sort.  Missing scores go last (na_position="last") and keep their
\* order; the default kind="quicksort" gives no order among equal scores.
MayPrecede(a, ia, b, ib) ==
    IF IsNa(a) THEN IsNa(b) /\ ia < ib
    ELSE IsNa(b) \/ a >= b

PermutationsOf(n) == { f \in [1..n -> 1..n] : \A i, j \in 1..n : i # j => f[i] # f[j] }

\* The orders sort_values may return: order[k] is the place, before the sort, of
\* the row that comes k-th.
SortOrders(rows) ==
    { order \in PermutationsOf(Len(rows)) :
        \A k, l \in 1..Len(rows) :
            k < l => MayPrecede(rows[order[k]]["drug_score"], order[k],
                                rows[order[l]]["drug_score"], order[l]) }

\* Lines 365-366: the sorted frame with reset_index(drop=True) and priority_rank.
rank(table, order) ==
    [ cols |-> table.cols \cup { "priority_rank" },
      rows |-> [ k \in DOMAIN table.rows |->
                 [ table.rows[order[k]] EXCEPT !["index"] = k - 1,
                                               !["priority_rank"] = k ] ] ]

final_cols ==
    << "candidate_id", "source_dataset", "name", "smiles", "molecular_weight",
       "polar_area", "xlogp", "h_bond_donor_count", "h_bond_acceptor_count",
       "rotatable_bond_count", "binding_score", "toxicity", "stability",
       "solubility", "efficacy_index", "safety_index", "molecular_complexity",
       "drug_score", "priority_rank" >>

float_cols == Range(final_cols) \ (CriticalText \cup { "priority_rank" })

\* Series.round(6), half to even, of a score-like value; the hundredths of a
\* descriptor column are unchanged by it.
Round6(x) ==
    LET g == Unit \div (10 ^ Decimals)
        q == x \div g
        rem == x % g
    IN IF 2 * rem < g THEN q * g
       ELSE IF 2 * rem > g THEN (q + 1) * g
       ELSE IF q % 2 = 0 THEN q * g ELSE (q + 1) * g

\* Line 399 with fillna(0.0) left out.
FillZeroOmitted(x) == x

\* fillna(0.0) of line 399.
FillZero(x) == FillNa(x, 0)

FinalCell(r, cols, c) ==
    LET v == IF c \in cols THEN r[c]
             ELSE IF c \in CriticalText THEN "unknown" ELSE NaN
    IN IF c \in float_cols
       THEN IF c \in ScoreCols \cup EngineeredCols THEN Round6(FillZero(v))
            ELSE FillZero(v)
       ELSE IF c = "priority_rank" THEN FillZero(v)
       ELSE v

\* Lines 368-402.
finalize(table) ==
    [ cols |-> final_cols,
      rows |-> [ i \in DOMAIN table.rows |->
                 [ c \in Range(final_cols) |-> FinalCell(table.rows[i], table.cols, c) ] ] ]

\* ---------------------------------------------------------- to_snake_case
\* A label is a sequence of characters.  The characters stand for the classes
\* the regular expressions and str.lower() tell apart: a lower-case letter, an
\* upper-case letter, a digit, the underscore, a blank, a hyphen, and U+0130
\* (capital I with dot above), whose lower case is the two code points "i" and
\* U+0307 (combining dot above, neither \w nor \s).
LabelChars == { "a", "B", "1", "_", " ", "-", "U+0130" }

IsSpace(c) == c = " "
IsWord(c) == c \in { "a", "b", "i", "B", "1", "_", "U+0130" }
IsLowerOrDigit(c) == c \in { "a", "b", "i", "1" }
IsUpper(c) == c = "B"

\* str.lower() of one character.
Lower(c) ==
    CASE c = "B" -> << "b" >>
      [] c = "U+0130" -> << "i", "U+0307" >>
      [] OTHER -> << c >>

RECURSIVE StripLeft(_, _)
StripLeft(s, chars) ==
    IF s # << >> /\ Head(s) \in chars THEN StripLeft(Tail(s), chars) ELSE s

RECURSIVE StripRight(_, _)
StripRight(s, chars) ==
    IF s # << >> /\ s[Len(s)] \in chars
    THEN StripRight(SubSeq(s, 1, Len(s) - 1), chars) ELSE s

\* str.strip(chars): the given characters are removed at both ends.
StripBoth(s, chars) == StripRight(StripLeft(s, chars), chars)

\* re.sub(r"[^\w\s]", " ", name)
SubNonWord(s) == [ i \in DOMAIN s |-> IF IsWord(s[i]) \/ IsSpace(s[i]) THEN s[i] ELSE " " ]

\* re.sub(r"([a-z0-9])([A-Z])", r"\1_\2", name)
RECURSIVE SubCamel(_)
SubCamel(s) ==
    IF Len(s) < 2 THEN s
    ELSE IF IsLowerOrDigit(s[1]) /\ IsUpper(s[2])
         THEN << s[1], "_" >> \o SubCamel(Tail(s))
         ELSE << s[1] >> \o SubCamel(Tail(s))

\* re.sub(<one or more of chars>, "_", name)
RECURSIVE SubRuns(_, _)
SubRuns(s, chars) ==
    IF s = << >> THEN << >>
    ELSE IF Head(s) \in chars THEN << "_" >> \o SubRuns(StripLeft(s, chars), chars)
    ELSE << Head(s) >> \o SubRuns(Tail(s), chars)

RECURSIVE LowerAll(_)
LowerAll(s) == IF s = << >> THEN << >> ELSE Lower(Head(s)) \o LowerAll(Tail(s))

\* The characters \s matches, among those of the model.
Whitespace == { c \in LabelChars \cup { "b", "i", "U+0307" } : IsSpace(c) }

to_snake_case(name) ==
    LET stripped == StripBoth(name, Whitespace)
        spaced == SubNonWord(stripped)
        camel == SubCamel(spaced)
        joined == SubRuns(camel, Whitespace \cup { "-" })
        single == SubRuns(joined, { "_" })
    IN LowerAll(StripBoth(single, { "_" }))

\* ------------------------------------------------------------------ state
VARIABLES
    pc,           \* the step main / harmonize_and_engineer is about to take
    HAS_RDKIT,    \* _HAS_RDKIT, fixed when the module is imported
    raw,          \* main's raw[...]: the three tables as read
    prepared,     \* the adapters' outputs, in the order harmonize receives them
    combined,     \* harmonize_and_engineer's working frame
    sortedIndex,  \* the index of the sorted frame before reset_index
    final_df,     \* the returned table
    label,        \* a column label handed to to_snake_case
    once,         \* to_snake_case(label)
    twice,        \* to_snake_case(once)
    npc,          \* how often the label has been normalized
    df,           \* a frame handed to compute_lipinski_ratio
    lipinski_ratio,  \* the series compute_lipinski_ratio returns for df
    lpc           \* whether compute_lipinski_ratio has returned

vars ==
    << pc, HAS_RDKIT, raw, prepared, combined, sortedIndex, final_df,
       label, once, twice, npc, df, lipinski_ratio, lpc >>
pipelineVars == << pc, HAS_RDKIT, raw, prepared, combined, sortedIndex, final_df >>
normalizerVars == << label, once, twice, npc >>
lipinskiVars == << df, lipinski_ratio, lpc >>

\* The tables read_csv may return for a file, or the empty frame main puts in
\* its place when the read fails; at most budget rows.
Inputs(cols, rowset, budget) ==
    { EmptyTable } \cup { ReadCsv(cols, rows) : rows \in SeqsUpTo(rowset, budget) }

Init ==
    /\ pc = "read"
    /\ HAS_RDKIT \in BOOLEAN
    /\ raw = [ delaney |-> EmptyTable, pubchem |-> EmptyTable, quantum |-> EmptyTable ]
    /\ prepared = << >>
    /\ combined = EmptyTable
    /\ sortedIndex = << >>
    /\ final_df = [ cols |-> << >>, rows |-> << >> ]
    /\ label = << >>
    /\ once = << >>
    /\ twice = << >>
    /\ npc = "idle"
    /\ df = EmptyTable
    /\ lipinski_ratio = << >>
    /\ lpc = "idle"

\* main, lines 492-501: every file is read or replaced by an empty frame.
ReadInputs ==
    /\ pc = "read"
    /\ \E d \in Inputs(DelaneyRawCols, DelaneyRows, MaxRows) :
       \E p \in Inputs(PubchemRawCols, PubchemRows, MaxRows - Len(d.rows)) :
       \E qcols \in { QuantumRawCols, QuantumScoreCols } :
       \E q \in Inputs(qcols, QuantumRows, MaxRows - Len(d.rows) - Len(p.rows)) :
           raw' = [ delaney |-> d, pubchem |-> p, quantum |-> q ]
    /\ pc' = "prepare_pubchem"
    /\ UNCHANGED << HAS_RDKIT, prepared, combined, sortedIndex, final_df >>
    /\ UNCHANGED normalizerVars
    /\ UNCHANGED lipinskiVars

\* main, line 503.
PreparePubchem ==
    /\ pc = "prepare_pubchem"
    /\ IF PubchemRaises(raw.pubchem)
       THEN pc' = "raised" /\ UNCHANGED prepared
       ELSE pc' = "prepare_delaney" /\ prepared' = << prepare_pubchem(raw.pubchem) >>
    /\ UNCHANGED << HAS_RDKIT, raw, combined, sortedIndex, final_df >>
    /\ UNCHANGED normalizerVars
    /\ UNCHANGED lipinskiVars

\* main, line 504.
PrepareDelaney ==
    /\ pc = "prepare_delaney"
    /\ prepared' = Append(prepared, prepare_delaney(raw.delaney))
    /\ pc' = "prepare_quantum"
    /\ UNCHANGED << HAS_RDKIT, raw, combined, sortedIndex, final_df >>
    /\ UNCHANGED normalizerVars
    /\ UNCHANGED lipinskiVars

\* main, line 505.
PrepareQuantum ==
    /\ pc = "prepare_quantum"
    /\ prepared' = Append(prepared, prepare_quantum(raw.quantum))
    /\ pc' = "merge"
    /\ UNCHANGED << HAS_RDKIT, raw, combined, sortedIndex, final_df >>
    /\ UNCHANGED normalizerVars
    /\ UNCHANGED lipinskiVars

\* harmonize_and_engineer, lines 234-237.
Merge ==
    /\ pc = "merge"
    /\ combined' = concat(prepared)
    /\ pc' = "estimate"
    /\ UNCHANGED << HAS_RDKIT, raw, prepared, sortedIndex, final_df >>
    /\ UNCHANGED normalizerVars
    /\ UNCHANGED lipinskiVars

\* Lines 258-301.
EstimateXlogp ==
    /\ pc = "estimate"
    /\ combined' = estimate_xlogp(combined, HAS_RDKIT)
    /\ pc' = "coerce"
    /\ UNCHANGED << HAS_RDKIT, raw, prepared, sortedIndex, final_df >>
    /\ UNCHANGED normalizerVars
    /\ UNCHANGED lipinskiVars

\* Lines 302-310.
CoerceText ==
    /\ pc = "coerce"
    /\ combined' = coerce_text(combined)
    /\ pc' = "impute"
    /\ UNCHANGED << HAS_RDKIT, raw, prepared, sortedIndex, final_df >>
    /\ UNCHANGED normalizerVars
    /\ UNCHANGED lipinskiVars

\* Lines 312-331.
Impute ==
    /\ pc = "impute"
    /\ combined' = impute(combined)
    /\ pc' = "override"
    /\ UNCHANGED << HAS_RDKIT, raw, prepared, sortedIndex, final_df >>
    /\ UNCHANGED normalizerVars
    /\ UNCHANGED lipinskiVars

\* Lines 333-340.
OverrideSolubility ==
    /\ pc = "override"
    /\ combined' = override_solubility(combined)
    /\ pc' = "engineer"
    /\ UNCHANGED << HAS_RDKIT, raw, prepared, sortedIndex, final_df >>
    /\ UNCHANGED normalizerVars
    /\ UNCHANGED lipinskiVars

\* Lines 342-363.
Engineer ==
    /\ pc = "engineer"
    /\ combined' = engineer(combined)
    /\ pc' = "rank"
    /\ UNCHANGED << HAS_RDKIT, raw, prepared, sortedIndex, final_df >>
    /\ UNCHANGED normalizerVars
    /\ UNCHANGED lipinskiVars

\* Lines 365-366.
Rank ==
    /\ pc = "rank"
    /\ \E order \in SortOrders(combined.rows) :
         /\ combined' = rank(combined, order)
         /\ sortedIndex' = [ k \in DOMAIN order |-> order[k] - 1 ]
    /\ pc' = "finalize"
    /\ UNCHANGED << HAS_RDKIT, raw, prepared, final_df >>
    /\ UNCHANGED normalizerVars
    /\ UNCHANGED lipinskiVars

\* Lines 368-402.
Finalize ==
    /\ pc = "finalize"
    /\ final_df' = finalize(combined)
    /\ pc' = "done"
    /\ UNCHANGED << HAS_RDKIT, raw, prepared, combined, sortedIndex >>
    /\ UNCHANGED normalizerVars
    /\ UNCHANGED lipinskiVars

Next ==
    \/ ReadInputs
    \/ PreparePubchem
    \/ PrepareDelaney
    \/ PrepareQuantum
    \/ Merge
    \/ EstimateXlogp
    \/ CoerceText
    \/ Impute
    \/ OverrideSolubility
    \/ Engineer
    \/ Rank
    \/ Finalize

Spec == Init /\ [][Next]_vars

\* ------------------------------------------- the column normalizer alone
InitNormalizer ==
    /\ pc = "idle"
    /\ HAS_RDKIT = FALSE
    /\ raw = [ delaney |-> EmptyTable, pubchem |-> EmptyTable, quantum |-> EmptyTable ]
    /\ prepared = << >>
    /\ combined = EmptyTable
    /\ sortedIndex = << >>
    /\ final_df = [ cols |-> << >>, rows |-> << >> ]
    /\ label \in SeqsUpTo(LabelChars, MaxLen)
    /\ once = << >>
    /\ twice = << >>
    /\ npc = "label"
    /\ df = EmptyTable
    /\ lipinski_ratio = << >>
    /\ lpc = "idle"

\* normalize_columns on a raw label.
NormalizeOnce ==
    /\ npc = "label"
    /\ once' = to_snake_case(label)
    /\ npc' = "once"
    /\ UNCHANGED << label, twice >>
    /\ UNCHANGED pipelineVars
    /\ UNCHANGED lipinskiVars

\* normalize_columns on an already normalized label (harmonize_and_engineer
\* normalizes the adapters' columns "one final time").
NormalizeTwice ==
    /\ npc = "once"
    /\ twice' = to_snake_case(once)
    /\ npc' = "twice"
    /\ UNCHANGED << label, once >>
    /\ UNCHANGED pipelineVars
    /\ UNCHANGED lipinskiVars

NextNormalizer == NormalizeOnce \/ NormalizeTwice

SpecNormalizer == InitNormalizer /\ [][NextNormalizer]_vars

\* --------------------------------------------- the Lipinski ratio alone
\* The six columns compute_lipinski_ratio looks for.
LipinskiCols ==
    { "molecular_weight", "xlogp", "h_bond_donor_count", "h_bond_acceptor_count",
      "rotatable_bond_count", "polar_area" }

\* Cells of a column around the limits of its rule: on the limit, just beyond
\* it, missing, and text that is no number.
LipinskiCells(col) ==
    { NaN, NotNumeric } \cup
    ( CASE col = "molecular_weight" -> { 500 * Cent, 500 * Cent + 1 }
        [] col = "xlogp" -> { 0 - Unit \div 2 - 1, 0 - Unit \div 2, 5 * Unit, 5 * Unit + 1 }
        [] col = "h_bond_donor_count" -> { 5 * Cent, 6 * Cent }
        [] col = "h_bond_acceptor_count" -> { 10 * Cent, 11 * Cent }
        [] col = "rotatable_bond_count" -> { 10 * Cent, 11 * Cent }
        [] col = "polar_area" -> { 140 * Cent, 140 * Cent + 1 } )

\* The rows that hold one of these cells in each column of cols and nothing in
\* the other columns.
RECURSIVE LipinskiRowsOver(_)
LipinskiRowsOver(cols) ==
    IF cols = {} THEN { Blank }
    ELSE LET c == CHOOSE x \in cols : TRUE
         IN { [ r EXCEPT ![c] = v ] :
                r \in LipinskiRowsOver(cols \ { c }), v \in LipinskiCells(c) }

\* One-row frames over any subset of the six columns; the function works row
\* by row (elementwise comparisons, mean(axis=1)).
LipinskiFrames(universe) ==
    UNION { { [ cols |-> cols, rows |-> << r >> ] : r \in LipinskiRowsOver(cols) }
            : cols \in SUBSET universe }

InitLipinski ==
    /\ pc = "idle"
    /\ HAS_RDKIT = FALSE
    /\ raw = [ delaney |-> EmptyTable, pubchem |-> EmptyTable, quantum |-> EmptyTable ]
    /\ prepared = << >>
    /\ combined = EmptyTable
    /\ sortedIndex = << >>
    /\ final_df = [ cols |-> << >>, rows |-> << >> ]
    /\ label = << >>
    /\ once = << >>
    /\ twice = << >>
    /\ npc = "idle"
    /\ df \in LipinskiFrames(LipinskiCols)
    /\ lipinski_ratio = << >>
    /\ lpc = "call"

\* lipinski_ratio = compute_lipinski_ratio(df), line 342.
ComputeLipinskiRatio ==
    /\ lpc = "call"
    /\ lipinski_ratio' = [ i \in DOMAIN df.rows |->
                             compute_lipinski_ratio(df.rows[i], df.cols) ]
    /\ lpc' = "returned"
    /\ UNCHANGED df
    /\ UNCHANGED pipelineVars
    /\ UNCHANGED normalizerVars

NextLipinski == ComputeLipinskiRatio

SpecLipinski == InitLipinski /\ [][NextLipinski]_vars

\* ------------------------------------------------------------------ claims
Sources == { "pubchem", "delaney", "quantum" }
Done == pc = "done"
FinalRows == final_df.rows
\* The merged table: the concatenation of the adapters' outputs.
MergedRows == concat(prepared).rows

\* C1: with any of the three inputs empty (zero rows, zero columns) the run
\* does not raise and returns a table with the 19 fixed columns; with all
\* three empty that table has no rows.
C1_EmptyInputsFinish ==
    /\ (pc = "raised" => \A k \in Sources : raw[k] # EmptyTable)
    /\ (Done /\ (\E k \in Sources : raw[k] = EmptyTable) =>
            /\ Len(final_df.cols) = 19
            /\ final_df.cols = final_cols)
    /\ (Done /\ (\A k \in Sources : raw[k] = EmptyTable) => FinalRows = << >>)

\* C2: in the returned table priority_rank is a permutation of 1..N, N the
\* number of rows of the merged table, and drug_score (after the fill of
\* missing values with 0.0 and the rounding) never increases with the rank.
C2_RankLaw ==
    Done =>
        /\ Len(FinalRows) = Len(MergedRows)
        /\ { FinalRows[i]["priority_rank"] : i \in DOMAIN FinalRows } = 1..Len(MergedRows)
        /\ \A i, j \in DOMAIN FinalRows :
              FinalRows[i]["priority_rank"] < FinalRows[j]["priority_rank"]
                  => FinalRows[i]["drug_score"] >= FinalRows[j]["drug_score"]

\* A run that ranked at least three rows with different scores, one of them
\* a score that was missing before the final fill.
C2_Witness ==
    /\ Done
    /\ Len(FinalRows) >= 3
    /\ \E i, j \in DOMAIN FinalRows : FinalRows[i]["drug_score"] > FinalRows[j]["drug_score"]
    /\ \E i \in DOMAIN combined.rows : IsNa(combined.rows[i]["drug_score"])
    /\ \E i \in DOMAIN FinalRows : FinalRows[i]["drug_score"] > 0

\* C3: two rows of the merged table with the same drug_score are ranked in
\* their merged order.
C3_StableRanking ==
    pc \in { "finalize", "done" } =>
        \A k, l \in DOMAIN combined.rows :
            (k < l /\ combined.rows[k]["drug_score"] = combined.rows[l]["drug_score"])
                => sortedIndex[k] < sortedIndex[l]

\* C4: in every returned row efficacy_index, safety_index,
\* molecular_complexity and drug_score are present and lie in [0,1].
C4_IndexBounds ==
    Done =>
        \A i \in DOMAIN FinalRows : \A c \in EngineeredCols :
            /\ ~IsNa(FinalRows[i][c])
            /\ 0 <= FinalRows[i][c]
            /\ FinalRows[i][c] <= Unit

\* A returned row of a source without heavy_atom_count, merged with rows that
\* have it: its molecular_complexity and drug_score were missing before the
\* final fill.
C4_Witness ==
    /\ Done
    /\ \E i \in DOMAIN combined.rows :
          /\ combined.rows[i]["source_dataset"] # "pubchem_antibiotic"
          /\ IsNa(combined.rows[i]["heavy_atom_count"])
          /\ IsNa(combined.rows[i]["molecular_complexity"])
          /\ IsNa(combined.rows[i]["drug_score"])
          /\ FinalRows[i]["drug_score"] = 0
    /\ \E i \in DOMAIN FinalRows : FinalRows[i]["safety_index"] > 0

\* C5: no two rows of the returned table have the same candidate_id.
C5_UniqueCandidateId ==
    Done =>
        \A i, j \in DOMAIN FinalRows :
            i # j => FinalRows[i]["candidate_id"] # FinalRows[j]["candidate_id"]

\* C6: to_snake_case is idempotent: normalizing a normalized label returns it.
C6_SnakeCaseIdempotent == npc = "twice" => twice = once

\* C7: every returned row's drug_score is, up to the rounding to six places,
\* clip(0.45*efficacy_index + 0.35*safety_index + 0.20*complexity_balance, 0, 1)
\* of the row's own efficacy_index, safety_index and molecular_complexity.
C7_DrugScoreFormula ==
    Done =>
        \A i \in DOMAIN FinalRows :
            Abs(FinalRows[i]["drug_score"]
                - Round6(drug_score(FinalRows[i]["efficacy_index"],
                                    FinalRows[i]["safety_index"],
                                    FinalRows[i]["molecular_complexity"])))
                <= 2 * (Unit \div (10 ^ Decimals))

\* The trigger condition of the estimation step as the claims state it: xlogp
\* missing or exactly zero, and a SMILES that is present and no sentinel.
Triggered(r) ==
    /\ IsNa(r["xlogp"]) \/ r["xlogp"] = 0
    /\ r["smiles"] # NoStr
    /\ r["smiles"] \notin { "unknown", "", "nan" }

\* C8: the estimation step leaves xlogp as it was in every row that does not
\* match the trigger condition, with or without RDKit.
C8_EstimatorFrame ==
    [][ pc = "estimate" =>
          \A i \in DOMAIN combined.rows :
              ~Triggered(combined.rows[i])
                  => combined'.rows[i]["xlogp"] = combined.rows[i]["xlogp"] ]_vars

\* The estimate as C9 states it: 0.0 stands in for a molecular_weight or
\* polar_area that the row does not have.
ClaimedEstimate(r, cols) ==
    LET mw == IF "molecular_weight" \in cols THEN FillNa(r["molecular_weight"], 0) ELSE 0
        pa == IF "polar_area" \in cols THEN FillNa(r["polar_area"], 0) ELSE 0
    IN Clip(2 * Unit + Ratio(mw - 350 * Cent, 250 * Cent)
                     - Ratio(pa - 50 * Cent, 200 * Cent),
            0 - 2 * Unit, 6 * Unit)

\* C9: without RDKit the value written for a triggered row is the heuristic
\* estimate with 0.0 for an absent input, a number in [-2.0, 6.0], never missing.
C9_HeuristicEstimate ==
    [][ (pc = "estimate" /\ ~HAS_RDKIT) =>
          \A i \in DOMAIN combined.rows :
              Triggered(combined.rows[i]) =>
                  /\ ~IsNa(combined'.rows[i]["xlogp"])
                  /\ combined'.rows[i]["xlogp"] >= 0 - 2 * Unit
                  /\ combined'.rows[i]["xlogp"] <= 6 * Unit
                  /\ combined'.rows[i]["xlogp"]
                        = ClaimedEstimate(combined.rows[i], combined.cols) ]_vars

\* The frame the imputer receives, recomputed from the adapters' outputs.
BeforeImpute == coerce_text(estimate_xlogp(concat(prepared), HAS_RDKIT))

\* C10: the benchmark override comes before the median imputation of
\* solubility: once both have run, every row's solubility is what imputing
\* the overridden column gives, so none is missing.
C10_OverrideBeforeImpute ==
    pc = "engineer" =>
        \A i \in DOMAIN combined.rows :
            /\ ~IsNa(combined.rows[i]["solubility"])
            /\ combined.rows[i]["solubility"]
                  = impute(override_solubility(BeforeImpute)).rows[i]["solubility"]

\* The rules of the six whose column the frame has.
AvailableRules(cols) == LipinskiCols \cap cols

\* Whether a cell is a number within the limits of its column's rule.
PassesRule(col, x) ==
    /\ x # NaN
    /\ x # NotNumeric
    /\ CASE col = "molecular_weight" -> x <= 500 * Cent
          [] col = "xlogp" -> x >= 0 - Unit \div 2 /\ x <= 5 * Unit
          [] col = "h_bond_donor_count" -> x <= 5 * Cent
          [] col = "h_bond_acceptor_count" -> x <= 10 * Cent
          [] col = "rotatable_bond_count" -> x <= 10 * Cent
          [] col = "polar_area" -> x <= 140 * Cent

\* The mean of the 0/1 outcomes over the available rules, 0.5 when there is none.
ClaimedRatio(r, cols) ==
    LET avail == AvailableRules(cols)
        passed == { c \in avail : PassesRule(c, r[c]) }
    IN IF avail = {} THEN Unit \div 2
       ELSE Ratio(Cardinality(passed), Cardinality(avail))

\* C11: compute_lipinski_ratio gives every row the mean of the 0/1 outcomes of
\* exactly the rules whose column exists in the frame; a missing or
\* non-numeric cell of an existing column counts as 0 and stays in the
\* average, a rule without column is left out, and with none of the six
\* columns every row gets 0.5.
C11_LipinskiRatio ==
    lpc = "returned" =>
        /\ DOMAIN lipinski_ratio = DOMAIN df.rows
        /\ \A i \in DOMAIN df.rows :
               lipinski_ratio[i] = ClaimedRatio(df.rows[i], df.cols)

\* A frame with three of the six columns, one cell passing, one missing, one
\* not a number: the ratio is 1/3.
C11_Witness ==
    /\ lpc = "returned"
    /\ df.cols = { "molecular_weight", "h_bond_donor_count", "polar_area" }
    /\ df.rows[1]["molecular_weight"] = NotNumeric
    /\ df.rows[1]["h_bond_donor_count"] = NaN
    /\ df.rows[1]["polar_area"] = 140 * Cent
    /\ lipinski_ratio[1] = Ratio(1, 3)

====
